---- MODULE Spec2Model ----
(***************************************************************************)
(* A model of base_fhirpy/lib.py: the Client with its resource cache, the  *)
(* SearchSet query builder and its terminal operations, and the            *)
(* Resource / Reference objects.                                           *)
(*                                                                         *)
(* Python objects live in heaps (sequences indexed by handle), so that     *)
(* identity and aliasing are visible: `resources' holds the Resource       *)
(* objects, `searchsets' the SearchSet objects the application keeps.      *)
(* A dict is a function whose DOMAIN is the set of keys present.  The      *)
(* server is external: every request consumes one response, drawn by the   *)
(* action from a small set.                                                *)
(***************************************************************************)
EXTENDS Integers, Sequences, FiniteSets, TLC

VARIABLES
    without_cache,    \* Client.without_cache
    schema,           \* Client.schema (the empty dict stands for None: both are falsy)
    resources_cache,  \* Client.resources_cache: <<resource_type, id>> -> handle
    resources,        \* heap of Resource objects: [resource_type, fields]
    searchsets,       \* heap of SearchSet objects: [resource_type, params]
    fetch_all_call,   \* the frame of a running SearchSet.fetch_all
    delete_call,      \* the frame of a Resource.delete another thread is in
    last              \* the last operation: what it was, raised, returned, requested

vars == <<without_cache, schema, resources_cache, resources, searchsets,
          fetch_all_call, delete_call, last>>

-----------------------------------------------------------------------------
(* Bounds of the model *)

MaxResources == 2      \* Resource objects ever allocated
MaxSearchSets == 3     \* SearchSet objects the application keeps
MaxEntries == 2        \* entries of a Bundle the server returns
MaxPages == 3          \* pages a fetch_all requests
MaxValues == 2         \* values accumulated under one search parameter

-----------------------------------------------------------------------------
(* Python values *)

None == "None"                      \* str(None) = 'None', as format() prints it
EmptyDict == [k \in {} |-> None]

ResourceTypes == {"Patient", "Observation"}
Ids == {"1", "2"}

\* bool(v) for None and strings
Truthy(v) == v /= None /\ v /= ""

\* dict.get(key, default)
dict_get(d, key, default) == IF key \in DOMAIN d THEN d[key] ELSE default

\* d[key] = value
dict_set(d, key, value) ==
    [k \in DOMAIN d \cup {key} |-> IF k = key THEN value ELSE d[k]]

\* del d[key]
dict_del(d, key) == [k \in DOMAIN d \ {key} |-> d[k]]

\* sep.join(parts)
RECURSIVE join(_, _)
join(sep, parts) ==
    IF Len(parts) = 0 THEN ""
    ELSE IF Len(parts) = 1 THEN parts[1]
    ELSE parts[1] \o sep \o join(sep, Tail(parts))

\* '{0}/{1}'.format(a, b)
format_path(a, b) == a \o "/" \o b

-----------------------------------------------------------------------------
(* Resource: the properties and the schema gate *)

\* Resource.id: self.get('id', None)
Resource_id(r) == dict_get(r.fields, "id", None)

\* Resource.reference; None when the resource has no id
Resource_reference(r) ==
    IF Truthy(Resource_id(r)) THEN format_path(r.resource_type, Resource_id(r))
    ELSE None

\* Resource._get_path
_get_path(r) ==
    IF Truthy(Resource_id(r)) THEN format_path(r.resource_type, Resource_id(r))
    ELSE IF r.resource_type = "Bundle" THEN ""
    ELSE r.resource_type

\* Resource.get_root_keys for a resource of type resource_type
get_root_keys(resource_type) ==
    IF DOMAIN schema = {} THEN {}
    ELSE dict_get(schema, resource_type, {})
            \cup {"resourceType", "id", "meta", "extension"}

\* Mutant of _raise_error_if_invalid_keys: no key is looked at
_raise_error_if_invalid_keys_no_gate(resource_type, keys) == FALSE

\* AbstractResource._raise_error_if_invalid_keys: TRUE when it raises KeyError
_raise_error_if_invalid_keys(resource_type, keys) ==
    /\ DOMAIN schema /= {}
    /\ \E key \in keys : key \notin get_root_keys(resource_type)

-----------------------------------------------------------------------------
(* Client: the cache *)

CacheKey(r) == <<r.resource_type, Resource_id(r)>>

\* Mutant of _add_resource_to_cache: the without_cache test is forgotten
_add_resource_to_cache_unguarded(cache, heap, h) ==
    dict_set(cache, CacheKey(heap[h]), h)

\* Client._add_resource_to_cache, of the resource with handle h in heap
_add_resource_to_cache(cache, heap, h) ==
    IF without_cache THEN cache
    ELSE dict_set(cache, CacheKey(heap[h]), h)

\* Client._remove_resource_from_cache: del raises KeyError on a missing key
_remove_resource_from_cache(cache, heap, h) ==
    IF without_cache THEN [raised |-> "no", cache |-> cache]
    ELSE IF CacheKey(heap[h]) \in DOMAIN cache
         THEN [raised |-> "no", cache |-> dict_del(cache, CacheKey(heap[h]))]
         ELSE [raised |-> "KeyError", cache |-> cache]

\* Client._get_resource_from_cache: a handle, or 0 for None
_get_resource_from_cache(cache, resource_type, id) ==
    IF without_cache THEN 0
    ELSE dict_get(cache, <<resource_type, id>>, 0)

\* Client.clear_resources_cache
clear_resources_cache(cache, resource_type) ==
    IF without_cache THEN cache
    ELSE IF Truthy(resource_type)
         THEN [k \in {x \in DOMAIN cache : x[1] /= resource_type} |-> cache[k]]
         ELSE EmptyDict

-----------------------------------------------------------------------------
(* Client: requests *)

\* What the transport answers: an HTTP status, and the parsed body when there
\* is content.  Client._do_request: params = params or {} keeps a non-empty
\* dict as the very object the caller passed, and update() then writes
\* '_format' into it; `params' is that object afterwards.
_do_request(method, path, params, response) ==
    LET sent == dict_set(params, "_format", "json")
    IN  [request |-> [method |-> method, path |-> path, params |-> sent],
         params |-> IF DOMAIN params /= {} THEN sent ELSE params,
         raised |-> IF response.status = "2xx" THEN "no"
                    ELSE IF response.status = "404" THEN "ResourceNotFound"
                    ELSE "OperationOutcome",
         is_none |-> ~response.content,
         data |-> response.body]

\* Client._fetch_resource
_fetch_resource(path, params, response) ==
    _do_request("get", path, params, response)

-----------------------------------------------------------------------------
(* Client.resource and the Resource constructor *)

\* Client.resource(resource_type, **kwargs): TypeError without a resource_type;
\* Resource.__init__ sets the resource_type attribute and the 'resourceType'
\* field, AbstractResource.__init__ passes every key through the schema gate.
\* The new object is appended to the heap; h is its handle.
Client_resource(heap, resource_type, kwargs) ==
    IF resource_type = None
    THEN [raised |-> "TypeError", heap |-> heap, h |-> 0]
    ELSE LET converted_kwargs == dict_set(kwargs, "resourceType", resource_type)
         IN  IF _raise_error_if_invalid_keys(resource_type, DOMAIN converted_kwargs)
             THEN [raised |-> "KeyError", heap |-> heap, h |-> 0]
             ELSE [raised |-> "no",
                   heap |-> Append(heap, [resource_type |-> resource_type,
                                          fields |-> converted_kwargs]),
                   h |-> Len(heap) + 1]

-----------------------------------------------------------------------------
(* SearchSet: materialization and the terminal operations *)

\* SearchSet._perform_resource
_perform_resource(cache, heap, data, skip_caching) ==
    LET made == Client_resource(heap, dict_get(data, "resourceType", None), data)
    IN  IF made.raised /= "no"
        THEN [raised |-> made.raised, cache |-> cache, heap |-> heap, h |-> 0]
        ELSE [raised |-> "no",
              cache |-> IF skip_caching THEN cache
                        ELSE _add_resource_to_cache(cache, made.heap, made.h),
              heap |-> made.heap,
              h |-> made.h]

\* Mutant of fetch_loop: every materialized resource is kept, of any type
RECURSIVE fetch_loop_unfiltered(_, _, _, _, _, _)
fetch_loop_unfiltered(cache, heap, resources_data, skip_caching, resource_type, acc) ==
    IF Len(resources_data) = 0
    THEN [raised |-> "no", cache |-> cache, heap |-> heap, result |-> acc]
    ELSE LET p == _perform_resource(cache, heap, Head(resources_data), skip_caching)
         IN  IF p.raised /= "no"
             THEN [raised |-> p.raised, cache |-> cache, heap |-> heap,
                   result |-> <<>>]
             ELSE fetch_loop_unfiltered(p.cache, p.heap, Tail(resources_data),
                                        skip_caching, resource_type,
                                        Append(acc, p.h))

\* The loop of SearchSet.fetch over resources_data: every entry is
\* materialized (and cached), only those of the SearchSet's type are kept.
\* An entry that fails to materialize ends the loop with what was cached so far.
RECURSIVE fetch_loop(_, _, _, _, _, _)
fetch_loop(cache, heap, resources_data, skip_caching, resource_type, acc) ==
    IF Len(resources_data) = 0
    THEN [raised |-> "no", cache |-> cache, heap |-> heap, result |-> acc]
    ELSE LET p == _perform_resource(cache, heap, Head(resources_data), skip_caching)
         IN  IF p.raised /= "no"
             THEN [raised |-> p.raised, cache |-> cache, heap |-> heap,
                   result |-> <<>>]
             ELSE fetch_loop(p.cache, p.heap, Tail(resources_data), skip_caching,
                             resource_type,
                             IF p.heap[p.h].resource_type = resource_type
                             THEN Append(acc, p.h) ELSE acc)

\* Mutant of fetch: the answer is not tested for being a Bundle
fetch_any_document(cache, heap, ss, skip_caching, response) ==
    LET r == _fetch_resource(ss.resource_type, ss.params, response)
        entry == dict_get(r.data, "entry", <<>>)
        stop(raised) == [raised |-> raised, cache |-> cache, heap |-> heap,
                         result |-> <<>>, requests |-> <<r.request>>,
                         params |-> r.params]
    IN  IF r.raised /= "no" THEN stop(r.raised)
        ELSE IF r.is_none THEN stop("AttributeError")
        ELSE IF \E i \in DOMAIN entry : "resource" \notin DOMAIN entry[i]
             THEN stop("KeyError")
        ELSE LET done == fetch_loop(cache, heap,
                                    [i \in DOMAIN entry |-> entry[i]["resource"]],
                                    skip_caching, ss.resource_type, <<>>)
             IN  [raised |-> done.raised, cache |-> done.cache, heap |-> done.heap,
                  result |-> done.result, requests |-> <<r.request>>,
                  params |-> r.params]

\* SearchSet.fetch on the SearchSet ss = [resource_type, params].  `params'
\* is ss.params when the call is over.
fetch(cache, heap, ss, skip_caching, response) ==
    LET r == _fetch_resource(ss.resource_type, ss.params, response)
        entry == dict_get(r.data, "entry", <<>>)
        stop(raised) == [raised |-> raised, cache |-> cache, heap |-> heap,
                         result |-> <<>>, requests |-> <<r.request>>,
                         params |-> r.params]
    IN  IF r.raised /= "no" THEN stop(r.raised)
        ELSE IF r.is_none THEN stop("AttributeError")
        ELSE IF dict_get(r.data, "resourceType", None) /= "Bundle"
             THEN stop("InvalidResponse")
        ELSE IF \E i \in DOMAIN entry : "resource" \notin DOMAIN entry[i]
             THEN stop("KeyError")
        ELSE LET done == fetch_loop(cache, heap,
                                    [i \in DOMAIN entry |-> entry[i]["resource"]],
                                    skip_caching, ss.resource_type, <<>>)
             IN  [raised |-> done.raised, cache |-> done.cache, heap |-> done.heap,
                  result |-> done.result, requests |-> <<r.request>>,
                  params |-> r.params]

\* Mutant of get: the answered document's resourceType is not compared with
\* the SearchSet's
get_any_type(cache, heap, ss, id, skip_caching, response) ==
    LET r == _fetch_resource(format_path(ss.resource_type, id), EmptyDict, response)
        stop(raised) == [raised |-> raised, cache |-> cache, heap |-> heap,
                         result |-> <<>>, requests |-> <<r.request>>]
    IN  IF r.raised /= "no" THEN stop(r.raised)
        ELSE IF r.is_none THEN stop("TypeError")
        ELSE IF "resourceType" \notin DOMAIN r.data THEN stop("KeyError")
        ELSE LET p == _perform_resource(cache, heap, r.data, skip_caching)
             IN  [raised |-> p.raised, cache |-> p.cache, heap |-> p.heap,
                  result |-> IF p.raised = "no" THEN <<p.h>> ELSE <<>>,
                  requests |-> <<r.request>>]

\* SearchSet.get
get(cache, heap, ss, id, skip_caching, response) ==
    LET r == _fetch_resource(format_path(ss.resource_type, id), EmptyDict, response)
        stop(raised) == [raised |-> raised, cache |-> cache, heap |-> heap,
                         result |-> <<>>, requests |-> <<r.request>>]
    IN  IF r.raised /= "no" THEN stop(r.raised)
        ELSE IF r.is_none THEN stop("TypeError")
        ELSE IF "resourceType" \notin DOMAIN r.data THEN stop("KeyError")
        ELSE IF r.data["resourceType"] /= ss.resource_type
             THEN stop("InvalidResponse")
        ELSE LET p == _perform_resource(cache, heap, r.data, skip_caching)
             IN  [raised |-> p.raised, cache |-> p.cache, heap |-> p.heap,
                  result |-> IF p.raised = "no" THEN <<p.h>> ELSE <<>>,
                  requests |-> <<r.request>>]

-----------------------------------------------------------------------------
(* SearchSet: the refinements.  A keyword argument is [is_list, value]:       *)
(* what isinstance(value, list) answers, and the value.                       *)

scalar(v) == [is_list |-> FALSE, value |-> v]
list(v) == [is_list |-> TRUE, value |-> v]

\* Mutant of clone: new_params is a shallow copy, whose lists are the lists of
\* self.params, so extend() on a key self has writes into self.params too
clone_shallow_copy(ss, override, kwargs) ==
    LET value(key) == IF kwargs[key].is_list THEN kwargs[key].value
                      ELSE <<kwargs[key].value>>
        new_params == [key \in DOMAIN ss.params \cup DOMAIN kwargs |->
                        IF key \notin DOMAIN kwargs THEN ss.params[key]
                        ELSE IF override THEN value(key)
                        ELSE dict_get(ss.params, key, <<>>) \o value(key)]
    IN  [raised |-> "no",
         new |-> [resource_type |-> ss.resource_type, params |-> new_params],
         self |-> [ss EXCEPT !.params =
                      [key \in DOMAIN ss.params |->
                          IF key \in DOMAIN kwargs /\ ~override
                          THEN new_params[key] ELSE ss.params[key]]]]

\* params[key] is a list: every value clone wrote is one, and '_format' holds
\* the string _do_request wrote once a request was made with these params
holds_list(params, key) ==
    key /= "_format" \/ params[key] \in Seq({"json", "xml"})

\* SearchSet.clone(override, **kwargs) on the SearchSet ss: the new SearchSet
\* and ss afterwards.  new_params is copy.deepcopy(self.params), a dict with
\* lists of its own, so nothing clone writes reaches self.params.
\* new_params[key].extend(value) raises AttributeError on a key that holds a
\* string, and makes the list of a key that is missing (a defaultdict).
clone(ss, override, kwargs) ==
    LET new_params == ss.params
        value(key) == IF kwargs[key].is_list THEN kwargs[key].value
                      ELSE <<kwargs[key].value>>
    IN  IF /\ ~override
           /\ \E key \in DOMAIN kwargs \cap DOMAIN new_params :
                  ~holds_list(new_params, key)
        THEN [raised |-> "AttributeError", new |-> ss, self |-> ss]
        ELSE [raised |-> "no",
              new |-> [resource_type |-> ss.resource_type,
                       params |-> [key \in DOMAIN new_params \cup DOMAIN kwargs |->
                                     IF key \notin DOMAIN kwargs THEN new_params[key]
                                     ELSE IF override THEN value(key)
                                     ELSE dict_get(new_params, key, <<>>) \o value(key)]],
              self |-> ss]

\* SearchSet.search(**kwargs)
search(ss, kwargs) == clone(ss, FALSE, kwargs)

\* SearchSet.limit(limit)
limit(ss, n) == clone(ss, TRUE, "_count" :> scalar(n))

\* SearchSet.page(page)
page(ss, n) == clone(ss, TRUE, "page" :> scalar(n))

\* SearchSet.sort(*keys)
sort(ss, keys) == clone(ss, TRUE, "_sort" :> scalar(join(",", keys)))

\* SearchSet.elements(*attrs, exclude): attrs is the list made of the set of
\* the attributes (with id and resourceType unless excluding), in the order
\* the set iterates, which the caller of this operator chooses.
elements_attrs(attrs, exclude) ==
    IF exclude THEN attrs ELSE attrs \cup {"id", "resourceType"}

elements(ss, ordered_attrs, exclude) ==
    clone(ss, TRUE,
          "_elements" :> scalar((IF exclude THEN "-" ELSE "")
                                    \o join(",", ordered_attrs)))

\* SearchSet.include(resource_type, attr, target_resource_type, recursive)
include(ss, resource_type, attr, target_resource_type, recursive) ==
    LET key_params == IF recursive THEN <<"_include", "recursive">>
                      ELSE <<"_include">>
        value_params == IF Truthy(target_resource_type)
                        THEN <<resource_type, attr, target_resource_type>>
                        ELSE <<resource_type, attr>>
    IN  clone(ss, FALSE, join(":", key_params) :> scalar(join(":", value_params)))

\* chunks(args, 2) of an even-length args, each pair joined with ':' behind '_has:'
RECURSIVE has_parts(_)
has_parts(args) ==
    IF Len(args) < 2 THEN <<>>
    ELSE <<"_has:" \o join(":", <<args[1], args[2]>>)>>
            \o has_parts(SubSeq(args, 3, Len(args)))

\* SearchSet.has(*args, **kwargs): TypeError on an odd number of args
has(ss, args, kwargs) ==
    IF Len(args) % 2 /= 0
    THEN [raised |-> "TypeError", new |-> ss, self |-> ss]
    ELSE LET key_part == join(":", has_parts(args))
             made == clone(ss, FALSE,
                           [k \in {join(":", <<key_part, key>>) : key \in DOMAIN kwargs}
                              |-> kwargs[CHOOSE key \in DOMAIN kwargs :
                                            join(":", <<key_part, key>>) = k]])
         IN  [raised |-> made.raised, new |-> made.new, self |-> made.self]

\* SearchSet.count: the request carries a deep copy of the params with _count
\* and _totalMethod overlaid; self.params is not passed.
count(ss, response) ==
    LET new_params == dict_set(dict_set(ss.params, "_count", 1),
                               "_totalMethod", "count")
        r == _fetch_resource(ss.resource_type, new_params, response)
    IN  [raised |-> IF r.raised /= "no" THEN r.raised
                    ELSE IF r.is_none THEN "TypeError"
                    ELSE IF "total" \notin DOMAIN r.data THEN "KeyError"
                    ELSE "no",
         requests |-> <<r.request>>,
         params |-> ss.params]

\* SearchSet.first: limit(1).fetch() runs on the clone, which is dropped
first(cache, heap, ss, response) ==
    LET made == limit(ss, 1)
        f == fetch(cache, heap, made.new, FALSE, response)
    IN  [raised |-> f.raised, cache |-> f.cache, heap |-> f.heap,
         result |-> IF Len(f.result) > 0 THEN <<f.result[1]>> ELSE <<>>,
         requests |-> f.requests,
         params |-> made.self.params]

-----------------------------------------------------------------------------
(* Resource: field writes, save, delete *)

\* Resource.__setitem__, then AbstractResource.__setitem__ behind the schema gate
Resource___setitem__(r, key, value) ==
    IF key = "resourceType" /\ "resourceType" \notin DOMAIN r.fields
    THEN [raised |-> "KeyError", r |-> r]
    ELSE IF _raise_error_if_invalid_keys(r.resource_type, {key})
    THEN [raised |-> "KeyError", r |-> r]
    ELSE [raised |-> "no", r |-> [r EXCEPT !.fields = dict_set(@, key, value)]]

\* AbstractResource.setdefault: dict.setdefault writes only a missing key
setdefault(r, key, default) ==
    IF _raise_error_if_invalid_keys(r.resource_type, {key})
    THEN [raised |-> "KeyError", r |-> r]
    ELSE [raised |-> "no",
          r |-> IF key \in DOMAIN r.fields THEN r
                ELSE [r EXCEPT !.fields = dict_set(@, key, default)]]

\* AbstractResource.__getitem__: the schema gate, then dict.__getitem__, which
\* raises KeyError on a key the dict does not hold
Resource___getitem__(r, key) ==
    IF _raise_error_if_invalid_keys(r.resource_type, {key})
    THEN [raised |-> "KeyError", value |-> None]
    ELSE IF key \notin DOMAIN r.fields
    THEN [raised |-> "KeyError", value |-> None]
    ELSE [raised |-> "no", value |-> r.fields[key]]

\* AbstractResource.get: the schema gate, then dict.get
Resource_get(r, key, default) ==
    IF _raise_error_if_invalid_keys(r.resource_type, {key})
    THEN [raised |-> "KeyError", value |-> None]
    ELSE [raised |-> "no", value |-> dict_get(r.fields, key, default)]

\* Mutant of save: the resource is put in the cache before 'id' is overwritten
\* from the answer, so under the id it had
save_cached_under_old_id(cache, heap, h, response) ==
    LET req == _do_request(IF Truthy(Resource_id(heap[h])) THEN "put" ELSE "post",
                           _get_path(heap[h]), EmptyDict, response)
        meta == Resource___setitem__(heap[h], "meta", dict_get(req.data, "meta", "{}"))
        id == Resource___setitem__(meta.r, "id", dict_get(req.data, "id", None))
    IN  IF req.raised /= "no" \/ req.is_none
        THEN [raised |-> IF req.raised /= "no" THEN req.raised ELSE "AttributeError",
              cache |-> cache, heap |-> heap, requests |-> <<req.request>>]
        ELSE [raised |-> "no",
              cache |-> _add_resource_to_cache(cache, heap, h),
              heap |-> [heap EXCEPT ![h] = id.r],
              requests |-> <<req.request>>]

\* Resource.save of the resource with handle h.  The request body is
\* self.serialize(), which changes nothing and is not recorded.
save(cache, heap, h, response) ==
    LET req == _do_request(IF Truthy(Resource_id(heap[h])) THEN "put" ELSE "post",
                           _get_path(heap[h]), EmptyDict, response)
        meta == Resource___setitem__(heap[h], "meta", dict_get(req.data, "meta", "{}"))
        id == Resource___setitem__(meta.r, "id", dict_get(req.data, "id", None))
        stop(raised, r) == [raised |-> raised, cache |-> cache,
                            heap |-> [heap EXCEPT ![h] = r],
                            requests |-> <<req.request>>]
    IN  IF req.raised /= "no" THEN stop(req.raised, heap[h])
        ELSE IF req.is_none THEN stop("AttributeError", heap[h])
        ELSE IF meta.raised /= "no" THEN stop(meta.raised, heap[h])
        ELSE IF id.raised /= "no" THEN stop(id.raised, meta.r)
        ELSE LET saved == [heap EXCEPT ![h] = id.r]
             IN  [raised |-> "no",
                  cache |-> _add_resource_to_cache(cache, saved, h),
                  heap |-> saved,
                  requests |-> <<req.request>>]

\* Mutant of delete: the request goes first, and the cache entry is removed
\* only when the server has deleted the resource
delete_request_then_evict(cache, heap, h, response) ==
    LET req == _do_request("delete", _get_path(heap[h]), EmptyDict, response)
        removed == _remove_resource_from_cache(cache, heap, h)
    IN  IF req.raised /= "no"
        THEN [raised |-> req.raised, cache |-> cache, requests |-> <<req.request>>]
        ELSE [raised |-> removed.raised, cache |-> removed.cache,
              requests |-> <<req.request>>]

\* Resource.delete: the cache entry goes first, and the request is not made
\* when removing it raises
delete(cache, heap, h, response) ==
    LET removed == _remove_resource_from_cache(cache, heap, h)
        req == _do_request("delete", _get_path(heap[h]), EmptyDict, response)
    IN  IF removed.raised /= "no"
        THEN [raised |-> removed.raised, cache |-> cache, requests |-> <<>>]
        ELSE [raised |-> req.raised, cache |-> removed.cache,
              requests |-> <<req.request>>]

-----------------------------------------------------------------------------
(* Reference: a concrete reference shows is_local, resource_type and id *)

\* Mutant of to_resource: is_local is not looked at
to_resource_any_reference(cache, heap, ref, nocache, response) ==
    LET cached_resource ==
            _get_resource_from_cache(cache, ref.resource_type, ref.id)
    IN  IF /\ cached_resource /= 0
           /\ DOMAIN heap[cached_resource].fields /= {}
           /\ ~nocache
        THEN [raised |-> "no", cache |-> cache, heap |-> heap,
              result |-> <<cached_resource>>, requests |-> <<>>]
        ELSE get(cache, heap,
                 [resource_type |-> ref.resource_type, params |-> EmptyDict],
                 ref.id, FALSE, response)

\* Mutant of to_resource: nocache is not looked at
to_resource_ignoring_nocache(cache, heap, ref, nocache, response) ==
    LET cached_resource ==
            _get_resource_from_cache(cache, ref.resource_type, ref.id)
    IN  IF ~ref.is_local
        THEN [raised |-> "ResourceNotFound", cache |-> cache, heap |-> heap,
              result |-> <<>>, requests |-> <<>>]
        ELSE IF cached_resource /= 0 /\ DOMAIN heap[cached_resource].fields /= {}
        THEN [raised |-> "no", cache |-> cache, heap |-> heap,
              result |-> <<cached_resource>>, requests |-> <<>>]
        ELSE get(cache, heap,
                 [resource_type |-> ref.resource_type, params |-> EmptyDict],
                 ref.id, FALSE, response)

\* Reference.to_resource(nocache).  A cached Resource is a dict, true when
\* it has any field.
to_resource(cache, heap, ref, nocache, response) ==
    LET cached_resource ==
            _get_resource_from_cache(cache, ref.resource_type, ref.id)
        got == get(cache, heap,
                   [resource_type |-> ref.resource_type, params |-> EmptyDict],
                   ref.id, FALSE, response)
    IN  IF ~ref.is_local
        THEN [raised |-> "ResourceNotFound", cache |-> cache, heap |-> heap,
              result |-> <<>>, requests |-> <<>>]
        ELSE IF /\ cached_resource /= 0
                /\ DOMAIN heap[cached_resource].fields /= {}
                /\ ~nocache
        THEN [raised |-> "no", cache |-> cache, heap |-> heap,
              result |-> <<cached_resource>>, requests |-> <<>>]
        ELSE got

-----------------------------------------------------------------------------
(* What the application passes and what the server answers *)

BoundedSeq(S, n) == UNION {[1..m -> S] : m \in 0..n}

\* A client schema: Patient has the declared field 'name'
PatientSchema == "Patient" :> {"name"}

\* Resource documents the server sends: Patients and an Observation, one
\* without a resourceType, one with a field outside the schema
Doc(resource_type, id) ==
    IF id = None THEN "resourceType" :> resource_type
    ELSE ("resourceType" :> resource_type) @@ ("id" :> id)

Docs ==
    {Doc("Patient", "1"), Doc("Patient", "2"), Doc("Observation", "1")}
        \cup {"id" :> "1"}
        \cup {Doc("Patient", "1") @@ ("zzz" :> "x")}

\* Bundle entries: {resource: document}, or an entry without a resource
Entries == {[resource |-> d] : d \in Docs} \cup {EmptyDict}

Bundle(entry) == ("resourceType" :> "Bundle") @@ ("entry" :> entry)

Bundles == {Bundle(entry) : entry \in BoundedSeq(Entries, MaxEntries)}

Answer(body) == [status |-> "2xx", content |-> TRUE, body |-> body]
NoContent == [status |-> "2xx", content |-> FALSE, body |-> EmptyDict]
Failures == {[status |-> st, content |-> FALSE, body |-> EmptyDict] :
                st \in {"404", "500"}}

\* a search answers a Bundle, a Bundle without entry, or some other document
FetchResponses ==
    Failures \cup {NoContent}
        \cup {Answer(b) : b \in Bundles}
        \cup {Answer("resourceType" :> "Bundle")}
        \cup {Answer(Doc("Patient", "1")), Answer("id" :> "1")}

\* save reads 'meta' and 'id' of the answer
SaveResponses ==
    Failures \cup {NoContent}
        \cup {Answer(d) : d \in {("id" :> "1") @@ ("meta" :> "v1"),
                                 ("id" :> "2") @@ ("meta" :> "v1"),
                                 "id" :> "1",
                                 EmptyDict}}

DeleteResponses == Failures \cup {NoContent}

CountResponses ==
    Failures \cup {NoContent}
        \cup {Answer(("resourceType" :> "Bundle") @@ ("total" :> 1)),
              Answer("resourceType" :> "Bundle")}

\* the SearchSet client.resources(resource_type) returns
Client_resources(resource_type) ==
    [resource_type |-> resource_type, params |-> EmptyDict]

\* references: local ones, and an external one
References ==
    {[is_local |-> TRUE, resource_type |-> t, id |-> i] :
        t \in ResourceTypes, i \in Ids}
    \cup {[is_local |-> FALSE, resource_type |-> None, id |-> None]}

NoReference == [is_local |-> FALSE, resource_type |-> None, id |-> None]

\* field writes the application makes
FieldWrites == {<<"resourceType", "Observation">>, <<"id", "2">>, <<"zzz", "x">>}

-----------------------------------------------------------------------------
(* The state machine *)

Idle == [running |-> FALSE, s |-> 0, ss |-> Client_resources(None),
         skip_caching |-> FALSE, page |-> 0, resources |-> <<>>,
         requests |-> <<>>]

Did(op, self, raised, result, requests, ref) ==
    [op |-> op, self |-> self, raised |-> raised, result |-> result,
     requests |-> requests, ref |-> ref]

\* no thread is inside Resource.delete
NoDelete == [running |-> FALSE, h |-> 0, key |-> <<None, None>>]

\* what a fetch did, with what the server answered it
DidFetch(self, raised, result, requests, response) ==
    [op |-> "fetch", self |-> self, raised |-> raised, result |-> result,
     requests |-> requests, ref |-> NoReference, response |-> response]

Init ==
    /\ without_cache \in BOOLEAN
    /\ schema \in {EmptyDict, PatientSchema}
    /\ resources_cache = EmptyDict
    /\ resources = <<>>
    /\ searchsets = <<>>
    /\ fetch_all_call = Idle
    /\ delete_call = NoDelete
    /\ last = Did("init", 0, "no", <<>>, <<>>, NoReference)

\* what no call made to completion changes: the client's settings, and the
\* delete a thread is in between its two statements
Client_frame == <<without_cache, schema, delete_call>>

\* the SearchSet object in slot s keeps the params the call left; slot 0 is a
\* SearchSet the application did not keep
KeepParams(s, params) ==
    IF s = 0 THEN searchsets ELSE [searchsets EXCEPT ![s].params = params]

\* client.resource(resource_type, **kwargs)
NewResource(resource_type, kwargs) ==
    LET made == Client_resource(resources, resource_type, kwargs)
    IN  /\ ~fetch_all_call.running
        /\ Len(resources) < MaxResources
        /\ resources' = made.heap
        /\ last' = Did("resource", made.h, made.raised, <<>>, <<>>,
                       NoReference)
        /\ UNCHANGED <<Client_frame, resources_cache, searchsets, fetch_all_call>>

\* resource[key] = value
SetItem(h, key, value) ==
    LET set == Resource___setitem__(resources[h], key, value)
    IN  /\ ~fetch_all_call.running
        /\ resources' = [resources EXCEPT ![h] = set.r]
        /\ last' = Did("setitem", h, set.raised, <<>>, <<>>, NoReference)
        /\ UNCHANGED <<Client_frame, resources_cache, searchsets, fetch_all_call>>

\* resource.setdefault(key, default)
SetDefault(h, key, default) ==
    LET set == setdefault(resources[h], key, default)
    IN  /\ ~fetch_all_call.running
        /\ resources' = [resources EXCEPT ![h] = set.r]
        /\ last' = Did("setdefault", h, set.raised, <<>>, <<>>, NoReference)
        /\ UNCHANGED <<Client_frame, resources_cache, searchsets, fetch_all_call>>

\* resource[key]; the value read is the result
GetItem(h, key) ==
    LET read == Resource___getitem__(resources[h], key)
    IN  /\ ~fetch_all_call.running
        /\ last' = Did("getitem", h, read.raised, <<read.value>>, <<>>, NoReference)
        /\ UNCHANGED <<Client_frame, resources_cache, resources, searchsets,
                       fetch_all_call>>

\* resource.get(key, default); the value read is the result
GetField(h, key, default) ==
    LET read == Resource_get(resources[h], key, default)
    IN  /\ ~fetch_all_call.running
        /\ last' = Did("get_field", h, read.raised, <<read.value>>, <<>>, NoReference)
        /\ UNCHANGED <<Client_frame, resources_cache, resources, searchsets,
                       fetch_all_call>>

\* resource.save()
Save(h, response) ==
    LET saved == save(resources_cache, resources, h, response)
    IN  /\ ~fetch_all_call.running
        /\ resources_cache' = saved.cache
        /\ resources' = saved.heap
        /\ last' = Did("save", h, saved.raised, <<>>, saved.requests,
                       NoReference)
        /\ UNCHANGED <<Client_frame, searchsets, fetch_all_call>>

\* resource.delete()
Delete(h, response) ==
    LET deleted == delete(resources_cache, resources, h, response)
    IN  /\ ~fetch_all_call.running
        /\ resources_cache' = deleted.cache
        /\ last' = Did("delete", h, deleted.raised, <<>>, deleted.requests,
                       NoReference)
        /\ UNCHANGED <<Client_frame, resources, searchsets, fetch_all_call>>

\* resource.delete() in a thread of its own, first statement:
\* self.client._remove_resource_from_cache(self).  When it raises the call
\* is over; when it returns, other threads run before the second statement.
DeleteEvict(h) ==
    LET removed == _remove_resource_from_cache(resources_cache, resources, h)
    IN  /\ ~fetch_all_call.running
        /\ ~delete_call.running
        /\ resources_cache' = removed.cache
        /\ IF removed.raised /= "no"
           THEN /\ delete_call' = NoDelete
                /\ last' = Did("delete", h, removed.raised, <<>>, <<>>, NoReference)
           ELSE /\ delete_call' = [running |-> TRUE, h |-> h,
                                   key |-> CacheKey(resources[h])]
                /\ last' = Did("delete_evict", h, "no", <<>>, <<>>, NoReference)
        /\ UNCHANGED <<without_cache, schema, resources, searchsets, fetch_all_call>>

\* second statement of that delete:
\* return self.client._do_request('delete', self._get_path())
DeleteRequest(response) ==
    LET h == delete_call.h
        req == _do_request("delete", _get_path(resources[h]), EmptyDict, response)
    IN  /\ delete_call.running
        /\ delete_call' = NoDelete
        /\ last' = Did("delete", h, req.raised, <<>>, <<req.request>>, NoReference)
        /\ UNCHANGED <<without_cache, schema, resources_cache, resources,
                       searchsets, fetch_all_call>>

\* client.clear_resources_cache(resource_type)
ClearResourcesCache(resource_type) ==
    /\ ~fetch_all_call.running
    /\ resources_cache' = clear_resources_cache(resources_cache, resource_type)
    /\ last' = Did("clear_resources_cache", 0, "no", <<>>, <<>>, NoReference)
    /\ UNCHANGED <<Client_frame, resources, searchsets, fetch_all_call>>

\* searchset.fetch(skip_caching=...)
Fetch(s, ss, skip_caching, response) ==
    LET f == fetch(resources_cache, resources, ss, skip_caching, response)
    IN  /\ ~fetch_all_call.running
        /\ Len(f.heap) <= MaxResources
        /\ resources_cache' = f.cache
        /\ resources' = f.heap
        /\ searchsets' = KeepParams(s, f.params)
        /\ last' = DidFetch(s, f.raised, f.result, f.requests, response)
        /\ UNCHANGED <<Client_frame, fetch_all_call>>

\* iter(searchset): iter(self.fetch())
Iter(s, ss, response) ==
    LET f == fetch(resources_cache, resources, ss, FALSE, response)
    IN  /\ ~fetch_all_call.running
        /\ Len(f.heap) <= MaxResources
        /\ resources_cache' = f.cache
        /\ resources' = f.heap
        /\ searchsets' = KeepParams(s, f.params)
        /\ last' = Did("iter", s, f.raised, f.result, f.requests, NoReference)
        /\ UNCHANGED <<Client_frame, fetch_all_call>>

\* searchset.get(id, skip_caching=...)
Get(s, ss, id, skip_caching, response) ==
    LET g == get(resources_cache, resources, ss, id, skip_caching, response)
    IN  /\ ~fetch_all_call.running
        /\ Len(g.heap) <= MaxResources
        /\ resources_cache' = g.cache
        /\ resources' = g.heap
        /\ last' = Did("get", s, g.raised, g.result, g.requests,
                       NoReference)
        /\ UNCHANGED <<Client_frame, searchsets, fetch_all_call>>

\* searchset.first()
First(s, ss, response) ==
    LET f == first(resources_cache, resources, ss, response)
    IN  /\ ~fetch_all_call.running
        /\ Len(f.heap) <= MaxResources
        /\ resources_cache' = f.cache
        /\ resources' = f.heap
        /\ searchsets' = KeepParams(s, f.params)
        /\ last' = Did("first", s, f.raised, f.result, f.requests, NoReference)
        /\ UNCHANGED <<Client_frame, fetch_all_call>>

\* searchset.count()
Count(s, ss, response) ==
    LET c == count(ss, response)
    IN  /\ ~fetch_all_call.running
        /\ searchsets' = KeepParams(s, c.params)
        /\ last' = Did("count", s, c.raised, <<>>, c.requests, NoReference)
        /\ UNCHANGED <<Client_frame, resources_cache, resources, fetch_all_call>>

\* reference.to_resource(nocache)
ToResource(ref, nocache, response) ==
    LET t == to_resource(resources_cache, resources, ref, nocache, response)
    IN  /\ ~fetch_all_call.running
        /\ Len(t.heap) <= MaxResources
        /\ resources_cache' = t.cache
        /\ resources' = t.heap
        /\ last' = Did("to_resource", 0, t.raised, t.result, t.requests, ref)
        /\ UNCHANGED <<Client_frame, searchsets, fetch_all_call>>

\* searchset.fetch_all(skip_caching=...): page = 1, resources = []
FetchAllStart(s, ss, skip_caching) ==
    /\ ~fetch_all_call.running
    /\ fetch_all_call' = [running |-> TRUE, s |-> s, ss |-> ss,
                          skip_caching |-> skip_caching, page |-> 1,
                          resources |-> <<>>, requests |-> <<>>]
    /\ last' = Did("fetch_all_start", s, "no", <<>>, <<>>, NoReference)
    /\ UNCHANGED <<Client_frame, resources_cache, resources, searchsets>>

\* Mutant of FetchAllPage: page is not incremented, page 1 is requested again
FetchAllPage_same_page(response) ==
    LET call == fetch_all_call
        f == fetch(resources_cache, resources, page(call.ss, 1).new,
                   call.skip_caching, response)
        requests == call.requests \o f.requests
    IN  /\ call.running
        /\ call.page <= MaxPages
        /\ Len(f.heap) <= MaxResources
        /\ resources_cache' = f.cache
        /\ resources' = f.heap
        /\ IF f.raised /= "no"
           THEN /\ fetch_all_call' = Idle
                /\ last' = Did("fetch_all", call.s, f.raised, <<>>, requests,
                               NoReference)
           ELSE IF Len(f.result) = 0
           THEN /\ fetch_all_call' = Idle
                /\ last' = Did("fetch_all", call.s, "no", call.resources, requests,
                               NoReference)
           ELSE /\ fetch_all_call' = [call EXCEPT !.page = @ + 1,
                                                  !.resources = @ \o f.result,
                                                  !.requests = requests]
                /\ last' = Did("fetch_all_page", call.s, "no", f.result, f.requests,
                               NoReference)
        /\ UNCHANGED <<Client_frame, searchsets>>

\* one turn of the loop of fetch_all: self.page(page).fetch(...) on the clone;
\* an empty page ends the call, which returns what the pages before gave
FetchAllPage(response) ==
    LET call == fetch_all_call
        f == fetch(resources_cache, resources, page(call.ss, call.page).new,
                   call.skip_caching, response)
        requests == call.requests \o f.requests
    IN  /\ call.running
        /\ call.page <= MaxPages
        /\ Len(f.heap) <= MaxResources
        /\ resources_cache' = f.cache
        /\ resources' = f.heap
        /\ IF f.raised /= "no"
           THEN /\ fetch_all_call' = Idle
                /\ last' = Did("fetch_all", call.s, f.raised, <<>>, requests,
                               NoReference)
           ELSE IF Len(f.result) = 0
           THEN /\ fetch_all_call' = Idle
                /\ last' = Did("fetch_all", call.s, "no", call.resources, requests,
                               NoReference)
           ELSE /\ fetch_all_call' = [call EXCEPT !.page = @ + 1,
                                                  !.resources = @ \o f.result,
                                                  !.requests = requests]
                /\ last' = Did("fetch_all_page", call.s, "no", f.result, f.requests,
                               NoReference)
        /\ UNCHANGED <<Client_frame, searchsets>>

NotFound == [status |-> "404", content |-> FALSE, body |-> EmptyDict]

\* what a lookup by id answers here: not found, the resource asked for, the
\* same type under another id, a resource of another type
LookupResponses ==
    {NotFound, Answer(Doc("Patient", "1")), Answer(Doc("Patient", "2")),
     Answer(Doc("Observation", "1"))}

\* what a search answers here: not found, a document that is no Bundle, an
\* empty Bundle, a Bundle of one Patient, a Bundle of a Patient and an Observation
SearchResponses ==
    {NotFound, Answer(Doc("Patient", "1")), Answer(Bundle(<<>>)),
     Answer(Bundle(<<[resource |-> Doc("Patient", "1")]>>)),
     Answer(Bundle(<<[resource |-> Doc("Patient", "2")],
                     [resource |-> Doc("Observation", "1")]>>))}

PatientReferences == {ref \in References : ref.resource_type /= "Observation"}

-----------------------------------------------------------------------------
(* Spec: a client without a schema and its Patient resources: create, save,  *)
(* delete, look up by id, resolve references, clear the cache.               *)

InitNoSchema ==
    /\ Init
    /\ schema = EmptyDict

Next ==
    \/ \E t \in {"Patient", None}, kwargs \in {EmptyDict, "id" :> "1"} :
            NewResource(t, kwargs)
    \/ \E h \in DOMAIN resources, response \in SaveResponses : Save(h, response)
    \/ \E h \in DOMAIN resources, response \in DeleteResponses : Delete(h, response)
    \/ \E t \in ResourceTypes \cup {None} : ClearResourcesCache(t)
    \/ \E id \in Ids, skip_caching \in BOOLEAN, response \in LookupResponses :
            Get(0, Client_resources("Patient"), id, skip_caching, response)
    \/ \E ref \in PatientReferences, nocache \in BOOLEAN,
          response \in LookupResponses :
            ToResource(ref, nocache, response)

Spec == InitNoSchema /\ [][Next]_vars

-----------------------------------------------------------------------------
(* SpecNoCache: a client created with caching disabled, and every operation  *)
(* that reaches the cache.                                                   *)

InitNoCache ==
    /\ Init
    /\ without_cache
    /\ schema = EmptyDict

NextNoCache ==
    \/ \E t \in ResourceTypes, kwargs \in {EmptyDict, "id" :> "1"} :
            NewResource(t, kwargs)
    \/ \E h \in DOMAIN resources, response \in SaveResponses : Save(h, response)
    \/ \E h \in DOMAIN resources, response \in DeleteResponses : Delete(h, response)
    \/ \E t \in ResourceTypes \cup {None} : ClearResourcesCache(t)
    \/ \E skip_caching \in BOOLEAN, response \in SearchResponses :
            Fetch(0, Client_resources("Patient"), skip_caching, response)
    \/ \E response \in SearchResponses :
            First(0, Client_resources("Patient"), response)
    \/ \E skip_caching \in BOOLEAN :
            FetchAllStart(0, Client_resources("Patient"), skip_caching)
    \/ \E response \in SearchResponses : FetchAllPage(response)
    \/ \E id \in Ids, skip_caching \in BOOLEAN, response \in LookupResponses :
            Get(0, Client_resources("Patient"), id, skip_caching, response)
    \/ \E ref \in References, nocache \in BOOLEAN, response \in LookupResponses :
            ToResource(ref, nocache, response)

SpecNoCache == InitNoCache /\ [][NextNoCache]_vars

-----------------------------------------------------------------------------
(* SpecFetchAll: fetch_all against a server that holds fewer than MaxPages    *)
(* pages of results, so that the page numbered MaxPages is empty or fails.    *)
(* The loop of fetch_all runs on as long as it is given the answer it waits   *)
(* for, which is the fairness of FetchAllPage.                                *)

PageResponses(n) ==
    IF n < MaxPages THEN SearchResponses
    ELSE {NotFound, Answer(Bundle(<<>>))}

FetchAllTurn ==
    \E response \in PageResponses(fetch_all_call.page) : FetchAllPage(response)

NextFetchAll ==
    \/ \E skip_caching \in BOOLEAN :
            FetchAllStart(0, Client_resources("Patient"), skip_caching)
    \/ FetchAllTurn
    \/ \E t \in ResourceTypes \cup {None} : ClearResourcesCache(t)

SpecFetchAll == Init /\ [][NextFetchAll]_vars /\ WF_vars(FetchAllTurn)

-----------------------------------------------------------------------------
(* SpecFetch: searches of either type against a server that answers any      *)
(* Bundle, on clients with and without cache and schema.                     *)

NextFetch ==
    \/ \E t \in ResourceTypes, skip_caching \in BOOLEAN, response \in FetchResponses :
            Fetch(0, Client_resources(t), skip_caching, response)
    \/ \E t \in ResourceTypes, response \in SearchResponses :
            Iter(0, Client_resources(t), response)
    \/ \E t \in ResourceTypes, response \in SearchResponses :
            First(0, Client_resources(t), response)
    \/ \E t \in ResourceTypes, response \in CountResponses :
            Count(0, Client_resources(t), response)
    \/ \E t \in ResourceTypes \cup {None} : ClearResourcesCache(t)

SpecFetch == Init /\ [][NextFetch]_vars

-----------------------------------------------------------------------------
(* SpecSearch: the application keeps SearchSets, refines them and runs the   *)
(* terminal operations on them.                                              *)

\* the SearchSet ss is refined into `made.new', which the application keeps;
\* `made.self' is ss when the call is over
Refined(op, s, made) ==
    /\ ~fetch_all_call.running
    /\ IF made.raised /= "no"
       THEN /\ last' = Did(op, s, made.raised, <<>>, <<>>, NoReference)
            /\ UNCHANGED searchsets
       ELSE /\ Len(searchsets) < MaxSearchSets
            /\ \A key \in DOMAIN made.new.params :
                  holds_list(made.new.params, key) =>
                      Len(made.new.params[key]) <= MaxValues
            /\ searchsets' = Append([searchsets EXCEPT ![s] = made.self], made.new)
            /\ last' = Did(op, s, "no", <<Len(searchsets) + 1>>, <<>>, NoReference)
    /\ UNCHANGED <<Client_frame, resources_cache, resources, fetch_all_call>>

\* a refinement that raises makes no SearchSet
Refused(op, s, raised) ==
    /\ ~fetch_all_call.running
    /\ last' = Did(op, s, raised, <<>>, <<>>, NoReference)
    /\ UNCHANGED <<Client_frame, resources_cache, resources, searchsets,
                   fetch_all_call>>

\* client.resources(resource_type)
Resources(resource_type) ==
    /\ ~fetch_all_call.running
    /\ Len(searchsets) < MaxSearchSets
    /\ searchsets' = Append(searchsets, Client_resources(resource_type))
    /\ last' = Did("resources", 0, "no", <<Len(searchsets) + 1>>, <<>>, NoReference)
    /\ UNCHANGED <<Client_frame, resources_cache, resources, fetch_all_call>>

\* searchset.clone(override=..., **kwargs), with what it was given
Clone(s, override, kwargs) ==
    LET made == clone(searchsets[s], override, kwargs)
        did(raised, result) ==
            [op |-> "clone", self |-> s, raised |-> raised, result |-> result,
             requests |-> <<>>, ref |-> NoReference,
             override |-> override, kwargs |-> kwargs]
    IN  /\ ~fetch_all_call.running
        /\ IF made.raised /= "no"
           THEN /\ last' = did(made.raised, <<>>)
                /\ UNCHANGED searchsets
           ELSE /\ Len(searchsets) < MaxSearchSets
                /\ \A key \in DOMAIN made.new.params :
                      holds_list(made.new.params, key) =>
                          Len(made.new.params[key]) <= MaxValues
                /\ searchsets' = Append([searchsets EXCEPT ![s] = made.self],
                                        made.new)
                /\ last' = did("no", <<Len(searchsets) + 1>>)
        /\ UNCHANGED <<Client_frame, resources_cache, resources, fetch_all_call>>

Search(s, kwargs) == Refined("search", s, search(searchsets[s], kwargs))

Limit(s, n) == Refined("limit", s, limit(searchsets[s], n))

Page(s, n) == Refined("page", s, page(searchsets[s], n))

Sort(s, keys) == Refined("sort", s, sort(searchsets[s], keys))

\* the list made of the set of attributes comes in any order
Elements(s, attrs, exclude) ==
    \E ordered_attrs \in [1..Cardinality(elements_attrs(attrs, exclude))
                            -> elements_attrs(attrs, exclude)] :
        /\ \A i, j \in DOMAIN ordered_attrs :
                ordered_attrs[i] = ordered_attrs[j] => i = j
        /\ Refined("elements", s, elements(searchsets[s], ordered_attrs, exclude))

Include(s, resource_type, attr, target_resource_type, recursive) ==
    Refined("include", s,
            include(searchsets[s], resource_type, attr, target_resource_type,
                    recursive))

Has(s, args, kwargs) ==
    LET made == has(searchsets[s], args, kwargs)
    IN  IF made.raised = "no" THEN Refined("has", s, made)
        ELSE Refused("has", s, made.raised)

\* SearchSet.revinclude raises NotImplementedError
Revinclude(s) == Refused("revinclude", s, "NotImplementedError")

\* what a search answers here: an empty Bundle, a Bundle of one Patient
FewResponses ==
    {Answer(Bundle(<<>>)),
     Answer(Bundle(<<[resource |-> Doc("Patient", "1")]>>))}

\* keyword arguments of clone: a list under a search parameter, a scalar under
\* the parameter that names the format of the answer
CloneKwargs == {"name" :> list(<<"a", "b">>), "_format" :> scalar("xml")}

\* the operations of SearchSet on a client without a cache: clone and search
\* refine any set, the refinements of one fixed argument refine the first set,
\* and the server answers a search with an empty Bundle or with 404
NextSearch ==
    \/ Resources("Patient")
    \/ \E s \in DOMAIN searchsets, override \in BOOLEAN, kwargs \in CloneKwargs :
            Clone(s, override, kwargs)
    \/ \E s \in DOMAIN searchsets : Search(s, "name" :> scalar("a"))
    \/ \E s \in DOMAIN searchsets \cap {1} : Limit(s, 1)
    \/ \E s \in DOMAIN searchsets \cap {1} : Page(s, 2)
    \/ \E s \in DOMAIN searchsets \cap {1} : Sort(s, <<"-date", "name">>)
    \/ \E s \in DOMAIN searchsets \cap {1} : Elements(s, {}, FALSE)
    \/ \E s \in DOMAIN searchsets \cap {1} :
            Include(s, "Patient", "organization", "Organization", TRUE)
    \/ \E s \in DOMAIN searchsets \cap {1},
          args \in {<<"Observation", "patient">>, <<"Observation">>} :
            Has(s, args, "code" :> scalar("x"))
    \/ \E s \in DOMAIN searchsets \cap {1} : Revinclude(s)
    \/ \E s \in DOMAIN searchsets, response \in {Answer(Bundle(<<>>)), NotFound} :
            Fetch(s, searchsets[s], FALSE, response)
    \/ \E s \in DOMAIN searchsets : Iter(s, searchsets[s], Answer(Bundle(<<>>)))
    \/ \E s \in DOMAIN searchsets : First(s, searchsets[s], Answer(Bundle(<<>>)))
    \/ \E s \in DOMAIN searchsets :
            Count(s, searchsets[s],
                  Answer(("resourceType" :> "Bundle") @@ ("total" :> 1)))
    \/ \E s \in DOMAIN searchsets :
            Get(s, searchsets[s], "1", FALSE, NotFound)
    \/ \E s \in DOMAIN searchsets : FetchAllStart(s, searchsets[s], FALSE)
    \/ FetchAllPage(Answer(Bundle(<<>>)))

SpecSearch == InitNoCache /\ [][NextSearch]_vars

-----------------------------------------------------------------------------
(* SpecCachedFields: on a client with a cache and without a schema, the       *)
(* application writes fields of resources the cache holds, between saves,     *)
(* lookups, deletes and clearings of the cache.                               *)

InitCachedFields ==
    /\ Init
    /\ ~without_cache
    /\ schema = EmptyDict

NextCachedFields ==
    \/ NewResource("Patient", EmptyDict)
    \/ \E h \in DOMAIN resources, w \in FieldWrites : SetItem(h, w[1], w[2])
    \/ \E h \in DOMAIN resources,
          response \in {NotFound, Answer(("id" :> "1") @@ ("meta" :> "v1")),
                        Answer(("id" :> "2") @@ ("meta" :> "v1"))} :
            Save(h, response)
    \/ \E h \in DOMAIN resources, response \in {NotFound, NoContent} :
            Delete(h, response)
    \/ \E skip_caching \in BOOLEAN, response \in LookupResponses :
            Get(0, Client_resources("Patient"), "1", skip_caching, response)
    \/ \E response \in FewResponses :
            Fetch(0, Client_resources("Patient"), FALSE, response)
    \/ ClearResourcesCache("Patient")

SpecCachedFields == InitCachedFields /\ [][NextCachedFields]_vars

-----------------------------------------------------------------------------
(* SpecThreads: on a client with a cache, one thread deletes a resource,      *)
(* statement by statement, while other threads look resources up and resolve  *)
(* references; the server answers a lookup as long as it holds the resource,  *)
(* which it does until the delete request has reached it.                     *)

InitThreads ==
    /\ Init
    /\ ~without_cache
    /\ schema = EmptyDict

NextThreads ==
    \/ \E id \in Ids, skip_caching \in BOOLEAN, response \in LookupResponses :
            /\ ~delete_call.running
            /\ Get(0, Client_resources("Patient"), id, skip_caching, response)
    \/ \E ref \in PatientReferences, nocache \in BOOLEAN,
          response \in LookupResponses :
            ToResource(ref, nocache, response)
    \/ \E h \in DOMAIN resources : DeleteEvict(h)
    \/ \E response \in DeleteResponses : DeleteRequest(response)
    \/ \E t \in ResourceTypes \cup {None} : ClearResourcesCache(t)

SpecThreads == InitThreads /\ [][NextThreads]_vars

-----------------------------------------------------------------------------
(* SpecFields: the application writes fields of its resources, saves and     *)
(* deletes them, on clients with and without a schema.                       *)

InitFields ==
    /\ Init
    /\ without_cache

\* writes and reads of fields: a key outside every schema, keys every schema
\* permits, a key the Patient schema declares
SchemaWrites == FieldWrites \cup {<<"name", "n">>}

FieldReads == {"zzz", "id", "name"}

NextFields ==
    \/ \E t \in {"Patient", None}, kwargs \in {EmptyDict, "zzz" :> "x"} :
            NewResource(t, kwargs)
    \/ \E h \in DOMAIN resources, w \in SchemaWrites : SetItem(h, w[1], w[2])
    \/ \E h \in DOMAIN resources, w \in SchemaWrites : SetDefault(h, w[1], w[2])
    \/ \E h \in DOMAIN resources, key \in FieldReads : GetItem(h, key)
    \/ \E h \in DOMAIN resources, key \in FieldReads : GetField(h, key, None)
    \/ \E h \in DOMAIN resources,
          response \in {NotFound, Answer(("id" :> "1") @@ ("meta" :> "v1"))} :
            Save(h, response)
    \/ \E h \in DOMAIN resources, response \in {NotFound, NoContent} :
            Delete(h, response)

SpecFields == InitFields /\ [][NextFields]_vars

-----------------------------------------------------------------------------
(* Properties *)

Range(f) == {f[k] : k \in DOMAIN f}

ServerFailure(response) ==
    IF response.status = "404" THEN "ResourceNotFound" ELSE "OperationOutcome"

\* C1: on a client created with caching disabled the resource cache is empty
\* in every reachable state, whatever fetch, fetch_all, get, first, save,
\* delete, to_resource and clear_resources_cache have done.
C1_CacheEmptyWhenDisabled ==
    without_cache => DOMAIN resources_cache = {}

\* a save has succeeded on the cache-disabled client and the server gave an id
C1_Witness ==
    /\ without_cache
    /\ last.op = "save"
    /\ last.raised = "no"
    /\ Resource_id(resources[last.self]) \in Ids
    /\ DOMAIN resources_cache = {}

\* C2: with caching enabled, a successful save() issues a POST to the bare
\* resource type when the resource has no id and a PUT to type/id when it has
\* one, and when it returns the cache holds this very resource under
\* (resource_type, id of the server's answer).
C2_SaveRequestsAndCaches ==
    [][\A h \in DOMAIN resources, response \in SaveResponses :
         (/\ last'.op = "save"
          /\ ~without_cache /\ Save(h, response) /\ last'.raised = "no") =>
            /\ Len(last'.requests) = 1
            /\ IF Resource_id(resources[h]) = None
               THEN /\ last'.requests[1].method = "post"
                    /\ last'.requests[1].path = resources[h].resource_type
               ELSE /\ last'.requests[1].method = "put"
                    /\ last'.requests[1].path =
                          format_path(resources[h].resource_type,
                                      Resource_id(resources[h]))
            /\ LET key == <<resources[h].resource_type,
                            dict_get(response.body, "id", None)>>
               IN  /\ key \in DOMAIN resources_cache'
                   /\ resources_cache'[key] = h
                   /\ Resource_id(resources'[h]) = key[2]]_vars

\* a resource with an id was saved (PUT) and is in the cache under its key
C2_Witness ==
    /\ ~without_cache
    /\ last.op = "save"
    /\ last.raised = "no"
    /\ last.requests[1].method = "put"
    /\ CacheKey(resources[last.self]) \in DOMAIN resources_cache
    /\ resources_cache[CacheKey(resources[last.self])] = last.self

Refinements ==
    {"clone", "search", "limit", "page", "sort", "elements", "include", "has"}

Terminals ==
    {"fetch", "iter", "get", "count", "first",
     "fetch_all_start", "fetch_all_page", "fetch_all"}

\* C4: a refinement (clone, search, limit, page, sort, elements, include,
\* has) of a SearchSet returns a new SearchSet and leaves the params of every
\* SearchSet there was, the refined one and those it was refined from, as
\* they were.
C4_RefinementsNeverMutate ==
    [][last'.op \in Refinements =>
         /\ \A s \in DOMAIN searchsets : searchsets'[s] = searchsets[s]
         /\ last'.raised = "no" =>
               /\ Len(searchsets') = Len(searchsets) + 1
               /\ last'.result = <<Len(searchsets) + 1>>]_vars

\* a SearchSet that was itself returned by a refinement was refined by
\* search on a key it already holds
C4_Witness ==
    /\ last.op = "search"
    /\ last.raised = "no"
    /\ last.self = 2
    /\ last.result = <<3>>
    /\ "name" \in DOMAIN searchsets[2].params
    /\ searchsets[3].params["name"] = searchsets[2].params["name"] \o <<"a">>

\* two parameter mappings are equal: the same keys, each holding a list in
\* both or the string of a request in both, and the same value
SameParams(p, q) ==
    /\ DOMAIN p = DOMAIN q
    /\ \A key \in DOMAIN p :
          /\ holds_list(p, key) = holds_list(q, key)
          /\ p[key] = q[key]

\* C5: the terminal operations fetch, iteration, get, count, first and
\* fetch_all leave the params of the SearchSet they are called on unchanged,
\* whether the params are empty or not.
C5_TerminalsKeepParams ==
    [][last'.op \in Terminals =>
         \A s \in DOMAIN searchsets :
            SameParams(searchsets'[s].params, searchsets[s].params)]_vars

\* C6: the resource_type attribute and the 'resourceType' field of every
\* resource hold the type given at construction, whatever was written, saved
\* or deleted since.
C6_ResourceTypeFixed ==
    \A h \in DOMAIN resources :
        /\ "resourceType" \in DOMAIN resources[h].fields
        /\ resources[h].fields["resourceType"] = resources[h].resource_type

\* C7: once delete() has returned on a resource, that object is the value of
\* no cache entry, and it stays out of the cache until save() is called on it.
C7_DeletedStaysOutOfCache ==
    [][\A h \in DOMAIN resources :
         /\ (last'.op = "delete" /\ last'.self = h /\ last'.raised = "no")
                => h \notin Range(resources_cache')
         /\ (h \notin Range(resources_cache) /\ ~(last'.op = "save" /\ last'.self = h))
                => h \notin Range(resources_cache')]_vars


\* the one request of a get for {resource_type}/{id}
GetRequest(ref) ==
    [method |-> "get", path |-> format_path(ref.resource_type, ref.id),
     params |-> "_format" :> "json"]

\* to_resource finds ref in the cache and may use what it finds
CacheHit(ref, nocache) ==
    /\ <<ref.resource_type, ref.id>> \in DOMAIN resources_cache
    /\ ~nocache

\* C8 as stated: for a local Reference, to_resource(nocache) returns the
\* instance cached under (resource_type, id) without a request when there is
\* one and nocache is false; otherwise it issues exactly one get for
\* {resource_type}/{id}, returns the fetched resource, and on return the cache
\* holds that resource under (resource_type, id) of the reference.
C8_AsStated ==
    [][\A ref \in PatientReferences, nocache \in BOOLEAN,
          response \in LookupResponses :
         (/\ last'.op = "to_resource"
          /\ ref.is_local /\ ToResource(ref, nocache, response)) =>
            IF CacheHit(ref, nocache)
            THEN /\ last'.raised = "no"
                 /\ last'.result = <<resources_cache[<<ref.resource_type, ref.id>>]>>
                 /\ last'.requests = <<>>
            ELSE /\ last'.requests = <<GetRequest(ref)>>
                 /\ last'.raised = "no" =>
                       /\ last'.result = <<Len(resources) + 1>>
                       /\ resources'[Len(resources) + 1].fields = response.body
                       /\ <<ref.resource_type, ref.id>> \in DOMAIN resources_cache'
                       /\ resources_cache'[<<ref.resource_type, ref.id>>]
                             = Len(resources) + 1]_vars

\* C8: for a local Reference, to_resource(nocache) returns the instance cached
\* under (resource_type, id) without a request and without a change when there
\* is one and nocache is false; otherwise it issues exactly one get for
\* {resource_type}/{id} and, when the get succeeds, returns a new resource
\* holding the answered document, which a client with caching then holds under
\* (resource_type, id of the answered document), and a client without caching
\* does not hold at all.
C8_ToResource ==
    [][\A ref \in PatientReferences, nocache \in BOOLEAN,
          response \in LookupResponses :
         (/\ last'.op = "to_resource"
          /\ ref.is_local /\ ToResource(ref, nocache, response)) =>
            IF CacheHit(ref, nocache)
            THEN /\ last'.raised = "no"
                 /\ last'.result = <<resources_cache[<<ref.resource_type, ref.id>>]>>
                 /\ last'.requests = <<>>
                 /\ UNCHANGED <<resources_cache, resources>>
            ELSE /\ last'.requests = <<GetRequest(ref)>>
                 /\ last'.raised = "no" =>
                       /\ last'.result = <<Len(resources) + 1>>
                       /\ resources'[Len(resources) + 1].fields = response.body
                       /\ IF without_cache
                          THEN resources_cache' = resources_cache
                          ELSE LET key == <<ref.resource_type,
                                            dict_get(response.body, "id", None)>>
                               IN  /\ key \in DOMAIN resources_cache'
                                   /\ resources_cache'[key] = Len(resources) + 1
                                   /\ \A k \in DOMAIN resources_cache \ {key} :
                                         /\ k \in DOMAIN resources_cache'
                                         /\ resources_cache'[k] = resources_cache[k]
                 /\ last'.raised /= "no" =>
                       UNCHANGED <<resources_cache, resources>>]_vars

\* a reference whose resource was in the cache was resolved with nocache: one
\* get was issued and the cache holds the new instance in place of the old one
C8_Witness ==
    /\ ~without_cache
    /\ last.op = "to_resource"
    /\ last.raised = "no"
    /\ last.requests = <<GetRequest(last.ref)>>
    /\ last.result = <<2>>
    /\ resources_cache = (<<"Patient", "1">> :> 2)
    /\ resources[1].fields = resources[2].fields


\* the documents of a Bundle's entries, in bundle order
BundleDocs(body) ==
    LET entry == dict_get(body, "entry", <<>>)
    IN  [i \in DOMAIN entry |-> entry[i]["resource"]]

IsBundle(response) ==
    /\ response.content
    /\ dict_get(response.body, "resourceType", None) = "Bundle"

\* C9: when fetch() returns on a Bundle, the resources it returns are new
\* resources holding, in bundle order, exactly the Bundle's documents whose
\* resourceType is the resource type the search was made for; documents of
\* other types are not among them.
C9_FetchFiltersByType ==
    [][(/\ last'.op = "fetch"
        /\ last'.raised = "no"
        /\ IsBundle(last'.response)) =>
           LET resource_type == last'.requests[1].path
           IN  /\ \A i \in DOMAIN last'.result :
                     /\ last'.result[i] \in DOMAIN resources' \ DOMAIN resources
                     /\ resources'[last'.result[i]].resource_type = resource_type
               /\ [i \in DOMAIN last'.result |-> resources'[last'.result[i]].fields]
                     = SelectSeq(BundleDocs(last'.response.body),
                                 LAMBDA d : d["resourceType"] = resource_type)]_vars

\* a Bundle of an Observation and a Patient was fetched for Patients: both
\* were materialized, the Patient alone was returned
C9_Witness ==
    /\ last.op = "fetch"
    /\ last.raised = "no"
    /\ Len(resources) = 2
    /\ resources[1].resource_type = "Observation"
    /\ resources[2].resource_type = "Patient"
    /\ last.result = <<2>>

\* C10: when the answer to fetch() is a document whose resourceType is not
\* 'Bundle', fetch() raises InvalidResponse, returns nothing, creates no
\* resource and leaves the cache as it was.
C10_NonBundleIsInvalidResponse ==
    [][(/\ last'.op = "fetch"
        /\ last'.response.content
        /\ ~IsBundle(last'.response)) =>
           /\ last'.raised = "InvalidResponse"
           /\ last'.result = <<>>
           /\ Len(last'.requests) = 1
           /\ UNCHANGED <<resources, resources_cache>>]_vars

\* fetch raised InvalidResponse on a client whose cache holds a resource
C10_Witness ==
    /\ last.op = "fetch"
    /\ last.raised = "InvalidResponse"
    /\ resources_cache /= <<>>
    /\ Len(resources) = 1


\* C11: fetch_all requests pages 1, 2, 3, ... in order, one request a turn;
\* a turn whose page(n).fetch() result is not empty appends it to the
\* resources and goes on to page n + 1; the first turn whose result is empty
\* ends the call, which returns the concatenation, in page order, of the
\* results of the pages before; and a call in progress always ends when the
\* server holds finitely many pages.
C11_FetchAllPagesInOrder ==
    /\ [][last'.op \in {"fetch_all_page", "fetch_all"} =>
            LET call == fetch_all_call
                turn == page(call.ss, call.page).new
            IN  /\ call.running
                /\ Len(call.requests) = call.page - 1
                /\ \E response \in SearchResponses :
                      LET f == fetch(resources_cache, resources, turn,
                                     call.skip_caching, response)
                      IN  /\ f.requests =
                                <<[method |-> "get", path |-> call.ss.resource_type,
                                   params |-> ("page" :> <<call.page>>)
                                                 @@ ("_format" :> "json")]>>
                          /\ IF last'.op = "fetch_all_page"
                             THEN /\ f.raised = "no"
                                  /\ f.result /= <<>>
                                  /\ last'.result = f.result
                                  /\ fetch_all_call' =
                                        [call EXCEPT !.page = call.page + 1,
                                                     !.resources = @ \o f.result,
                                                     !.requests = @ \o f.requests]
                             ELSE /\ ~fetch_all_call'.running
                                  /\ last'.requests = call.requests \o f.requests
                                  /\ last'.raised = f.raised
                                  /\ f.raised = "no" =>
                                        /\ f.result = <<>>
                                        /\ last'.result = call.resources]_vars
    /\ [](fetch_all_call.running =>
            \A i \in DOMAIN fetch_all_call.requests :
                fetch_all_call.requests[i].params["page"] = <<i>>)
    /\ (fetch_all_call.running ~> ~fetch_all_call.running)

\* fetch_all returned the resources of pages 1 and 2 after page 3 came empty
C11_Witness ==
    /\ last.op = "fetch_all"
    /\ last.raised = "no"
    /\ Len(last.requests) = 3
    /\ \A i \in 1..3 : last.requests[i].params["page"] = <<i>>
    /\ last.result = <<1, 2>>


\* the cache after one entry was put under the key of the document `body' of
\* type resource_type
CachePlus(resource_type, body, h) ==
    LET key == <<resource_type, dict_get(body, "id", None)>>
    IN  [k \in DOMAIN resources_cache \cup {key} |->
            IF k = key THEN h ELSE resources_cache[k]]

C13_NonLocalReferenceFails ==
    [][(last'.op = "to_resource" /\ ~last'.ref.is_local) =>
          /\ last'.raised = "ResourceNotFound"
          /\ last'.result = <<>>
          /\ last'.requests = <<>>
          /\ UNCHANGED <<resources_cache, resources>>]_vars

\* a reference that is not local was refused on a client whose cache holds a
\* resource
C13_Witness ==
    /\ last.op = "to_resource"
    /\ ~last.ref.is_local
    /\ last.raised = "ResourceNotFound"
    /\ resources_cache /= <<>>


\* the keys a client with a schema permits on a resource of type resource_type
Permitted(resource_type) ==
    dict_get(schema, resource_type, {}) \cup {"resourceType", "id", "meta", "extension"}

\* the schema gate stops `key' on a resource of type resource_type
Gated(resource_type, key) ==
    /\ schema /= EmptyDict
    /\ key \notin Permitted(resource_type)

\* C14: on a client with a schema, constructing a resource with a key outside
\* the permitted set, or reading (get, indexed read) or writing (setdefault,
\* indexed write) such a key, raises KeyError and leaves the resources as they
\* were, and every key of every resource is in the permitted set of its type;
\* a permitted key is not refused; and on a client without a schema every such
\* operation goes through, an indexed read of a key the resource does not hold
\* being the only one that raises.
C14_SchemaGate ==
    /\ [](schema /= EmptyDict =>
            \A h \in DOMAIN resources :
                DOMAIN resources[h].fields \subseteq Permitted(resources[h].resource_type))
    /\ [][/\ \A kwargs \in {EmptyDict, "zzz" :> "x"} :
                NewResource("Patient", kwargs) =>
                   IF \E key \in DOMAIN kwargs : Gated("Patient", key)
                   THEN last'.raised = "KeyError" /\ resources' = resources
                   ELSE /\ last'.raised = "no"
                        /\ resources' =
                              Append(resources,
                                     [resource_type |-> "Patient",
                                      fields |-> kwargs @@ ("resourceType" :> "Patient")])
          /\ \A h \in DOMAIN resources, w \in SchemaWrites :
                LET r == resources[h]
                IN  /\ SetItem(h, w[1], w[2]) =>
                          IF Gated(r.resource_type, w[1])
                          THEN last'.raised = "KeyError" /\ resources' = resources
                          ELSE /\ last'.raised = "no"
                               /\ resources'[h].fields[w[1]] = w[2]
                    /\ SetDefault(h, w[1], w[2]) =>
                          IF Gated(r.resource_type, w[1])
                          THEN last'.raised = "KeyError" /\ resources' = resources
                          ELSE /\ last'.raised = "no"
                               /\ resources'[h].fields[w[1]] =
                                     dict_get(r.fields, w[1], w[2])
          /\ \A h \in DOMAIN resources, key \in FieldReads :
                LET r == resources[h]
                IN  /\ GetItem(h, key) =>
                          IF Gated(r.resource_type, key) \/ key \notin DOMAIN r.fields
                          THEN last'.raised = "KeyError"
                          ELSE last'.raised = "no" /\ last'.result = <<r.fields[key]>>
                    /\ GetField(h, key, None) =>
                          IF Gated(r.resource_type, key)
                          THEN last'.raised = "KeyError"
                          ELSE /\ last'.raised = "no"
                               /\ last'.result = <<dict_get(r.fields, key, None)>>]_vars

\* on a client with the Patient schema, a write of the key 'zzz' to a Patient
\* that holds the declared key 'name' was refused
C14_Witness ==
    /\ schema = PatientSchema
    /\ last.op = "setitem"
    /\ last.raised = "KeyError"
    /\ "name" \in DOMAIN resources[last.self].fields
    /\ "zzz" \notin DOMAIN resources[last.self].fields


\* C15: clone(override, {k: v}) returns a SearchSet in which k holds [v], or v
\* itself when v is a list, when override is true, and what k held before
\* followed by v when override is false, every other key holding what it held.
C15_CloneOverridesOrAppends ==
    [][last'.op = "clone" =>
          /\ last'.raised = "no"
          /\ LET prior == searchsets[last'.self].params
                 new == searchsets'[Len(searchsets) + 1].params
                 k == CHOOSE key \in DOMAIN last'.kwargs : TRUE
                 v == IF last'.kwargs[k].is_list THEN last'.kwargs[k].value
                      ELSE <<last'.kwargs[k].value>>
             IN  /\ DOMAIN new = DOMAIN prior \cup {k}
                 /\ new[k] = IF last'.override THEN v
                             ELSE IF k \in DOMAIN prior THEN prior[k] \o v
                             ELSE v
                 /\ \A key \in DOMAIN prior \ {k} : new[key] = prior[key]]_vars


\* C16: on a client with caching enabled, delete() on a resource that has an
\* id issues exactly one delete request for {resource_type}/{id}, whether or
\* not the resource is in the cache.
C16_DeleteIssuesOneRequest ==
    [][(/\ last'.op = "delete"
        /\ ~without_cache
        /\ Truthy(Resource_id(resources[last'.self]))) =>
           last'.requests =
              <<[method |-> "delete",
                 path |-> format_path(resources[last'.self].resource_type,
                                      Resource_id(resources[last'.self])),
                 params |-> "_format" :> "json"]>>]_vars

\* C17: delete() on a resource that has no id raises, issues no request and
\* leaves the cache as it was, with caching enabled and with caching disabled.
C17_DeleteWithoutIdFailsFast ==
    [][(/\ last'.op = "delete"
        /\ ~Truthy(Resource_id(resources[last'.self]))) =>
           /\ last'.raised /= "no"
           /\ last'.requests = <<>>
           /\ resources_cache' = resources_cache]_vars

\* C20: when fetch() raises, whatever the reason, the cache is what it was
\* before the call.
C20_FetchAtomicOnFailure ==
    [][(last'.op = "fetch" /\ last'.raised /= "no") =>
           resources_cache' = resources_cache]_vars


\* C19: on a client with caching enabled, in every reachable state the
\* resource held under the cache key (t, i) has resource_type t and id i.
C19_CacheKeysMatchResources ==
    ~without_cache =>
        \A key \in DOMAIN resources_cache :
            LET r == resources[resources_cache[key]]
            IN  /\ r.resource_type = key[1]
                /\ Resource_id(r) = key[2]


\* C18: while a delete() of a resource is between its eviction and its
\* return, with other threads looking resources up and resolving references
\* on the same client, the cache holds no entry under the key of the resource,
\* and the key is still absent when delete() returns.
C18_NoEntryWhileDeleteInFlight ==
    [][/\ delete_call'.running =>
             delete_call'.key \notin DOMAIN resources_cache'
       /\ (delete_call.running /\ ~delete_call'.running) =>
             delete_call.key \notin DOMAIN resources_cache']_vars

====
